---- MODULE Spec2Model ----
(***************************************************************************)
(* The multi-tab composite form of angular-cva: MultiTabFormCvaComponent   *)
(* (a FormGroup of three controls, one per tab) and the three section      *)
(* components bound to those controls (PersonalInfoCvaComponent,           *)
(* AddressInfoCvaComponent, PreferencesCvaComponent), each with its own    *)
(* inner FormGroup of validated fields; and, under a specification of its  *)
(* own, UserFormCvaComponent, the single-form value accessor.              *)
(*                                                                         *)
(* A nullable value (T | null) is a tuple: <<>> is null, <<v>> is v.       *)
(* A tab index i of the code (0-based) addresses element i+1 of a TLA+     *)
(* sequence.                                                               *)
(***************************************************************************)
EXTENDS Integers, Sequences, FiniteSets, TLC

None == <<>>
Some(v) == <<v>>

(***************************************************************************)
(* Bounds of the model                                                     *)
(***************************************************************************)
\* switchTab is tried with every index from -MaxOvershoot to
\* tabs.length - 1 + MaxOvershoot
MaxOvershoot == 1

\* at most MaxSubscribers functions are subscribed to the valueChanges of
\* UserFormCvaComponent's form
MaxSubscribers == 2

(***************************************************************************)
(* Program constants                                                       *)
(***************************************************************************)
\* ids of the entries of the tabs array; tabs.length = Len(tabs)
tabs == <<0, 1, 2>>

\* the tabNames array of isTabValid, isTabTouched, validate, getTabErrors
tabNames == <<"personalInfo", "addressInfo", "preferences">>

ControlNames == {tabNames[k] : k \in 1..Len(tabNames)}

\* field controls of each section's inner form, in declaration order
Fields(name) ==
    CASE name = "personalInfo" ->
           <<"firstName", "lastName", "email", "phone", "dateOfBirth">>
      [] name = "addressInfo" ->
           <<"street", "city", "state", "country", "postalCode">>
      [] name = "preferences" ->
           <<"theme", "language", "notifications", "newsletter",
             "marketingEmails">>

FieldSet(name) == {Fields(name)[k] : k \in 1..Len(Fields(name))}

\* validators declared for each field control
FieldValidators(name, field) ==
    CASE name = "personalInfo" /\ field \in {"firstName", "lastName"} ->
           {"required", "minlength"}
      [] name = "personalInfo" /\ field = "email" -> {"required", "email"}
      [] name = "personalInfo" /\ field = "phone" -> {"required", "pattern"}
      [] name = "personalInfo" /\ field = "dateOfBirth" -> {"required"}
      [] name = "addressInfo" /\ field = "postalCode" ->
           {"required", "pattern"}
      [] name = "addressInfo" /\ field # "postalCode" -> {"required"}
      [] name = "preferences" /\ field \in {"theme", "language"} ->
           {"required"}
      [] OTHER -> {}

(***************************************************************************)
(* Section values the model feeds in.  Each is a whole value of a section. *)
(***************************************************************************)
PersonalEmpty ==
    [firstName |-> "", lastName |-> "", email |-> "", phone |-> "",
     dateOfBirth |-> ""]

PersonalJane ==
    [firstName |-> "Jane", lastName |-> "Doe",
     email |-> "jane.doe@example.com", phone |-> "+1 (555) 987-6543",
     dateOfBirth |-> "1990-05-15"]

AddressEmpty ==
    [street |-> "", city |-> "", state |-> "", country |-> "",
     postalCode |-> ""]

AddressMain ==
    [street |-> "123 Main Street", city |-> "New York", state |-> "NY",
     country |-> "US", postalCode |-> "10001"]

PreferencesDefault ==
    [theme |-> "light", language |-> "en", notifications |-> TRUE,
     newsletter |-> FALSE, marketingEmails |-> FALSE]

PreferencesNoTheme ==
    [theme |-> "", language |-> "en", notifications |-> TRUE,
     newsletter |-> TRUE, marketingEmails |-> FALSE]

\* the value each inner form is created with
InitialValue(name) ==
    CASE name = "personalInfo" -> PersonalEmpty
      [] name = "addressInfo" -> AddressEmpty
      [] name = "preferences" -> PreferencesDefault

Samples(name) ==
    CASE name = "personalInfo" -> {PersonalEmpty, PersonalJane}
      [] name = "addressInfo" -> {AddressEmpty, AddressMain}
      [] name = "preferences" -> {PreferencesDefault, PreferencesNoTheme}

\* texts the user types into single fields of the sections: empty, a text
\* the field's validators accept and, where a validator looks at the text
\* itself, a text it rejects
FieldTexts(name, field) ==
    CASE name = "personalInfo" /\ field = "firstName" -> {"", "J", "Jane"}
      [] name = "personalInfo" /\ field = "email" ->
           {"", "jane", "jane.doe@example.com"}
      [] name = "addressInfo" /\ field = "city" -> {"", "New York"}
      [] name = "addressInfo" /\ field = "postalCode" -> {"", "12", "10001"}
      [] name = "preferences" /\ field = "theme" -> {"", "light"}
      [] OTHER -> {}

(***************************************************************************)
(* Field validators (Validators.required, minLength(2), email, pattern),   *)
(* evaluated on the strings that occur in the section values above.        *)
(***************************************************************************)
StrLen(s) ==
    CASE s = "" -> 0
      [] s = "J" -> 1
      [] s = "Doe" -> 3
      [] s = "Jane" -> 4

\* Validators.email accepts local-part@domain
MatchesEmail(s) == s \in {"jane.doe@example.com"}

\* /^\+?[\d\s-()]+$/ for phone, /^\d{4,6}$/ for postalCode
MatchesPattern(name, s) ==
    IF name = "personalInfo" THEN s \in {"+1 (555) 987-6543"}
    ELSE s \in {"10001"}

\* the keys of the errors object of one field control (empty: errors is null)
FieldErrors(name, field, v) ==
    LET vs == FieldValidators(name, field)
    IN  {e \in vs :
           CASE e = "required" -> v = ""
             [] e = "minlength" -> v # "" /\ StrLen(v) < 2
             [] e = "email" -> v # "" /\ ~MatchesEmail(v)
             [] e = "pattern" -> v # "" /\ ~MatchesPattern(name, v)}

\* status of one field control of a section's inner FormGroup
FieldStatus(name, field, form) ==
    IF form.disabled THEN "DISABLED"
    ELSE IF FieldErrors(name, field, form.value[field]) # {}
         THEN "INVALID"
         ELSE "VALID"

\* status of a section's inner FormGroup
InnerStatus(name, form) ==
    IF form.disabled THEN "DISABLED"
    ELSE IF \E f \in FieldSet(name) :
              FieldErrors(name, f, form.value[f]) # {}
         THEN "INVALID"
         ELSE "VALID"

\* variant: an entry is written for every field, without the check
\* fieldControl.invalid && fieldControl.errors
SectionValidate_allFields(name, form) ==
    IF InnerStatus(name, form) = "INVALID"
    THEN LET errors == [f \in FieldSet(name) |->
                           FieldErrors(name, f, form.value[f])]
         IN  IF Cardinality(DOMAIN errors) > 0
             THEN Some([key |-> name, errors |-> errors])
             ELSE None
    ELSE None

\* validate() of a section component: null, or { <section>: errors }
SectionValidate(name, form) ==
    IF InnerStatus(name, form) = "INVALID"
    THEN LET invalid == {f \in FieldSet(name) :
                           FieldErrors(name, f, form.value[f]) # {}}
             errors == [f \in invalid |->
                           FieldErrors(name, f, form.value[f])]
         IN  IF Cardinality(DOMAIN errors) > 0
             THEN Some([key |-> name, errors |-> errors])
             ELSE None
    ELSE None

(***************************************************************************)
(* State                                                                   *)
(***************************************************************************)
VARIABLES
    activeTab,     \* MultiTabFormCvaComponent.activeTab
    complexForm,   \* the FormGroup: its three controls and its status
    sectionForm,   \* inner FormGroup of the section bound to each control
    last,          \* what the last operation did (alert shown, value
                   \* logged, exception thrown)
    userForm,             \* UserFormCvaComponent.userForm: its fields
    userFormSubscribers,  \* the subscriptions of userForm.valueChanges
    userFormLast          \* what the last operation of
                          \* UserFormCvaComponent did

\* the state of the multi-tab form and of UserFormCvaComponent
tabVars == <<activeTab, complexForm, sectionForm, last>>
userVars == <<userForm, userFormSubscribers, userFormLast>>

vars == <<activeTab, complexForm, sectionForm, last,
          userForm, userFormSubscribers, userFormLast>>

(***************************************************************************)
(* Forms API, as far as the components use it                              *)
(***************************************************************************)
\* FormGroup.get(name): the control, or null for a name that is not a
\* control of the group (tabNames[tabIndex] is undefined out of range)
get(form, name) ==
    IF name # None /\ name[1] \in DOMAIN form.controls
    THEN Some(form.controls[name[1]])
    ELSE None

\* tabNames[tabIndex]: undefined (null here) outside the array
tabNameAt(tabIndex) ==
    IF tabIndex \in 0..(Len(tabNames) - 1)
    THEN Some(tabNames[tabIndex + 1])
    ELSE None

\* tabs[tabIndex].title throws a TypeError when tabs[tabIndex] is undefined
titleThrows(tabIndex) == tabIndex \notin 0..(Len(tabs) - 1)

\* status of a FormGroup without validators of its own
GroupStatus(controls) ==
    IF DOMAIN controls # {} /\
       \A n \in DOMAIN controls : controls[n].status = "DISABLED"
    THEN "DISABLED"
    ELSE IF \E n \in DOMAIN controls : controls[n].status = "INVALID"
         THEN "INVALID"
         ELSE "VALID"

\* FormGroup.value: the values of the enabled controls (of all controls
\* when the group itself is disabled)
GroupValue(form) ==
    [n \in {m \in DOMAIN form.controls :
               form.controls[m].status # "DISABLED" \/
               form.status = "DISABLED"} |->
        form.controls[n].value]

\* variant: the section component is not provided as NG_VALIDATORS, the
\* control has no validator and an enabled control is always valid
revalidate_noValidator(ctrl, name, inner) ==
    IF ctrl.status = "DISABLED"
    THEN [ctrl EXCEPT !.errors = None]
    ELSE [ctrl EXCEPT !.errors = None, !.status = "VALID"]

\* updateValueAndValidity of one control: a disabled control keeps status
\* DISABLED and no errors, an enabled one runs its validator, which is the
\* validate() of the section component bound to it
revalidate(ctrl, name, inner) ==
    IF ctrl.status = "DISABLED"
    THEN [ctrl EXCEPT !.errors = None]
    ELSE LET errs == SectionValidate(name, inner)
         IN  [ctrl EXCEPT !.errors = errs,
                          !.status = IF errs = None THEN "VALID"
                                     ELSE "INVALID"]

\* variant: the controls are updated with onlySelf, the group's status is
\* not recomputed
withControls_onlySelf(form, controls) ==
    [form EXCEPT !.controls = controls]

\* updateValueAndValidity of the group after its controls changed
withControls(form, controls) ==
    [form EXCEPT !.controls = controls, !.status = GroupStatus(controls)]

\* writeValue of a section component: a truthy value is patched into the
\* inner form, null leaves the inner form as it is
sectionWriteValue(inner, value) ==
    IF value # None THEN [inner EXCEPT !.value = value[1]] ELSE inner

(***************************************************************************)
(* Queries of MultiTabFormCvaComponent                                     *)
(***************************************************************************)
\* variant: a missing control counts as valid (tabControl.valid : true)
isTabValid_missingIsValid(tabIndex) ==
    LET tabControl == get(complexForm, tabNameAt(tabIndex))
    IN  IF tabControl # None THEN tabControl[1].status = "VALID" ELSE TRUE

\* variant: the test is !tabControl.invalid, which a disabled control passes
isTabValid_notInvalid(tabIndex) ==
    LET tabControl == get(complexForm, tabNameAt(tabIndex))
    IN  IF tabControl # None THEN tabControl[1].status # "INVALID" ELSE FALSE

isTabValid(tabIndex) ==
    LET tabControl == get(complexForm, tabNameAt(tabIndex))
    IN  IF tabControl # None THEN tabControl[1].status = "VALID" ELSE FALSE

isTabTouched(tabIndex) ==
    LET tabControl == get(complexForm, tabNameAt(tabIndex))
    IN  IF tabControl # None THEN tabControl[1].touched ELSE FALSE

\* variant: the loop bound is i <= tabIndex, the target tab is checked too
RECURSIVE canSwitchLoop_inclusive(_, _)
canSwitchLoop_inclusive(i, tabIndex) ==
    IF i <= tabIndex
    THEN IF ~isTabValid(i) THEN FALSE
         ELSE canSwitchLoop_inclusive(i + 1, tabIndex)
    ELSE TRUE

RECURSIVE canSwitchLoop(_, _)
canSwitchLoop(i, tabIndex) ==
    IF i < tabIndex
    THEN IF ~isTabValid(i) THEN FALSE ELSE canSwitchLoop(i + 1, tabIndex)
    ELSE TRUE

\* variant: only the tabs from activeTab on are checked
canSwitchToTab_fromActive(tabIndex) ==
    IF tabIndex <= activeTab THEN TRUE
    ELSE canSwitchLoop(activeTab, tabIndex)

\* variant: the first tab is left out of the check
canSwitchToTab_fromOne(tabIndex) ==
    IF tabIndex <= activeTab THEN TRUE ELSE canSwitchLoop(1, tabIndex)

\* variant: the current tab is not exempt (tabIndex < activeTab)
canSwitchToTab_strict(tabIndex) ==
    IF tabIndex < activeTab THEN TRUE ELSE canSwitchLoop(0, tabIndex)

canSwitchToTab(tabIndex) ==
    IF tabIndex <= activeTab THEN TRUE ELSE canSwitchLoop(0, tabIndex)

\* variant: the loop stops one tab early (i < tabs.length - 1)
RECURSIVE findFirstInvalidLoop_short(_)
findFirstInvalidLoop_short(i) ==
    IF i < Len(tabs) - 1
    THEN IF ~isTabValid(i) THEN i ELSE findFirstInvalidLoop_short(i + 1)
    ELSE -1

RECURSIVE findFirstInvalidLoop(_)
findFirstInvalidLoop(i) ==
    IF i < Len(tabs)
    THEN IF ~isTabValid(i) THEN i ELSE findFirstInvalidLoop(i + 1)
    ELSE -1

\* variant: the search starts at the active tab
findFirstInvalidTab_fromActive == findFirstInvalidLoop(activeTab)

findFirstInvalidTab == findFirstInvalidLoop(0)

isCurrentTabValid == isTabValid(activeTab)

RECURSIVE areAllPreviousLoop(_, _)
areAllPreviousLoop(i, bound) ==
    IF i <= bound
    THEN IF ~isTabValid(i) THEN FALSE ELSE areAllPreviousLoop(i + 1, bound)
    ELSE TRUE

\* variant: only the tabs before the active one are tested (i < activeTab)
areAllPreviousTabsValid_exclusive == areAllPreviousLoop(0, activeTab - 1)

areAllPreviousTabsValid == areAllPreviousLoop(0, activeTab)

canProceedToNext == isCurrentTabValid

canSubmitForm == complexForm.status = "VALID"

\* variant: an entry is written for every tab, without the check
\* tabControl.invalid && tabControl.errors
validate_allTabs ==
    IF complexForm.status = "INVALID"
    THEN LET errors == [n \in ControlNames |->
                           complexForm.controls[n].errors]
         IN  IF Cardinality(DOMAIN errors) > 0
             THEN Some([key |-> "multiTabForm", errors |-> errors])
             ELSE None
    ELSE None

\* validate() of the multi-tab component: null, or { multiTabForm: errors }
\* with one entry per tab control that is invalid and has errors
validate ==
    IF complexForm.status = "INVALID"
    THEN LET withErrors ==
                 {n \in ControlNames :
                    LET tabControl == get(complexForm, Some(n))
                    IN  tabControl # None /\
                        tabControl[1].status = "INVALID" /\
                        tabControl[1].errors # None}
             errors == [n \in withErrors |->
                           complexForm.controls[n].errors]
         IN  IF Cardinality(DOMAIN errors) > 0
             THEN Some([key |-> "multiTabForm", errors |-> errors])
             ELSE None
    ELSE None

(***************************************************************************)
(* Inputs                                                                  *)
(***************************************************************************)
TabTargets == (0 - MaxOvershoot)..(Len(tabs) - 1 + MaxOvershoot)

\* a section value or null
SectionValues(name) == {None} \cup {Some(v) : v \in Samples(name)}

\* values the parent control writes: null, or one entry per section (the
\* value of the App constructor among them), an entry being null or a
\* section value
ComplexValues ==
    {None} \cup
    {Some([personalInfo |-> p, addressInfo |-> a, preferences |-> q]) :
        p \in {None, Some(PersonalEmpty), Some(PersonalJane)},
        a \in {None, Some(AddressMain)},
        q \in {Some(PreferencesDefault), Some(PreferencesNoTheme)}}

\* section names passed to onNestedCvaChange / onNestedCvaTouched
SectionNames == ControlNames \cup {"billing"}

\* record of an operation: its name, activeTab when it was called, the tab
\* index it was about, whether it took its success branch, the alerts it
\* showed, whether it ended in an exception, the value it logged, the
\* arguments of its calls of this.onChange in order and the number of its
\* calls of this.onTouched
Report(op, tab, ok, alerts, thrown, formData) ==
    [op |-> op, from |-> activeTab, tab |-> tab, ok |-> ok,
     alerts |-> alerts, thrown |-> thrown, formData |-> formData,
     onChange |-> <<>>, onTouched |-> 0]

\* a report with the calls of the registered callbacks filled in
Called(report, onChange, onTouched) ==
    [report EXCEPT !.onChange = onChange, !.onTouched = onTouched]

\* variant: ngOnInit does not subscribe, an emission reaches no callback
onValueChanges_unsubscribed(form) == <<>>

\* the subscription of ngOnInit, complexForm.valueChanges.subscribe(value
\* => this.onChange(value)): the calls of this.onChange for one emission
\* of the form
onValueChanges(form) == <<GroupValue(form)>>

\* position of a control in complexForm.controls
controlIndex(name) == CHOOSE i \in 1..Len(tabNames) : tabNames[i] = name

\* the emissions of complexForm.valueChanges during disable() / enable():
\* the controls change state one after the other, each section component
\* reports its inner value to its control, which updates the group and
\* makes it emit; the group emits once more when all controls are done
stateChangeEmissions(form, controls) ==
    LET during(k) ==
          withControls(form,
             [n \in DOMAIN controls |->
                IF controlIndex(n) <= k THEN controls[n]
                ELSE form.controls[n]])
        each[k \in 0..Len(tabNames)] ==
          IF k = 0 THEN <<>>
          ELSE each[k - 1] \o onValueChanges(during(k))
    IN  each[Len(tabNames)] \o onValueChanges(withControls(form, controls))

(***************************************************************************)
(* UserFormCvaComponent: a value accessor around a FormGroup of three      *)
(* required text fields.  Its registerOnChange and registerOnTouched       *)
(* subscribe the given function to userForm.valueChanges.                  *)
(***************************************************************************)
UserFormFields == {"username", "surname", "activity"}

\* texts typed into or written to a field
UserFormTexts == {"", "john"}

\* the functions a forms directive may register
Callbacks == {"fn1", "fn2"}

\* values passed to writeValue: null or a value for every field
UserFormValues ==
    {None} \cup {Some(v) : v \in [UserFormFields -> UserFormTexts]}

\* record of an operation of the component: its name, whether it took its
\* success branch, and its calls of subscribed functions in order, each
\* with the registration that subscribed the function and the argument
UserFormCva_Report(op, ok, calls) == [op |-> op, ok |-> ok, calls |-> calls]

\* userForm.valid: every field passes Validators.required
UserFormCva_valid(form) == \A f \in UserFormFields : form[f] # ""

\* one emission of userForm.valueChanges: every subscribed function is
\* called with the value of the form, in the order of subscription
UserFormCva_valueChanges(form) ==
    [k \in 1..Len(userFormSubscribers) |->
        [fn |-> userFormSubscribers[k].fn,
         by |-> userFormSubscribers[k].by,
         value |-> form]]

\* the form created by the constructor
UserFormCva_constructor == [f \in UserFormFields |-> ""]

UserFormCva_onSubmit ==
    /\ userFormLast' = UserFormCva_Report("onSubmit",
                                          UserFormCva_valid(userForm), <<>>)
    /\ UNCHANGED <<userForm, userFormSubscribers>>
    /\ UNCHANGED tabVars

\* writeValue(value): this.userForm.patchValue(value); patchValue returns
\* at once for null, otherwise it sets the fields and the form emits
UserFormCva_writeValue(value) ==
    /\ IF value # None
       THEN /\ userForm' = value[1]
            /\ userFormLast' =
                  UserFormCva_Report("writeValue", TRUE,
                                     UserFormCva_valueChanges(value[1]))
       ELSE /\ userForm' = userForm
            /\ userFormLast' = UserFormCva_Report("writeValue", TRUE, <<>>)
    /\ UNCHANGED userFormSubscribers
    /\ UNCHANGED tabVars

\* registerOnChange(fn): this.userForm.valueChanges.subscribe(fn)
UserFormCva_registerOnChange(fn) ==
    /\ Len(userFormSubscribers) < MaxSubscribers
    /\ userFormSubscribers' =
          Append(userFormSubscribers, [fn |-> fn, by |-> "registerOnChange"])
    /\ userFormLast' = UserFormCva_Report("registerOnChange", TRUE, <<>>)
    /\ UNCHANGED userForm
    /\ UNCHANGED tabVars

\* registerOnTouched(fn): this.userForm.valueChanges.subscribe(fn)
UserFormCva_registerOnTouched(fn) ==
    /\ Len(userFormSubscribers) < MaxSubscribers
    /\ userFormSubscribers' =
          Append(userFormSubscribers, [fn |-> fn, by |-> "registerOnTouched"])
    /\ userFormLast' = UserFormCva_Report("registerOnTouched", TRUE, <<>>)
    /\ UNCHANGED userForm
    /\ UNCHANGED tabVars

\* the user types into a field of the form: the form emits its new value
UserFormCva_input(field, text) ==
    /\ text # userForm[field]
    /\ userForm' = [userForm EXCEPT ![field] = text]
    /\ userFormLast' =
          UserFormCva_Report("input", TRUE,
                             UserFormCva_valueChanges(userForm'))
    /\ UNCHANGED userFormSubscribers
    /\ UNCHANGED tabVars

(***************************************************************************)
(* Initial state: the component is constructed (activeTab 0, three         *)
(* controls of value null), the section components are bound to the        *)
(* controls, which validates each control against its section's inner      *)
(* form as created.                                                        *)
(***************************************************************************)
createInnerForm(name) == [value |-> InitialValue(name), disabled |-> FALSE]

createComplexForm ==
    LET controls ==
          [n \in ControlNames |->
             revalidate([value |-> None, status |-> "VALID",
                         errors |-> None, touched |-> FALSE],
                        n, createInnerForm(n))]
    IN  [controls |-> controls, status |-> GroupStatus(controls)]

Init ==
    /\ activeTab = 0
    /\ complexForm = createComplexForm
    /\ sectionForm = [n \in ControlNames |-> createInnerForm(n)]
    /\ last = Report("init", 0, TRUE, <<>>, FALSE, None)
    /\ userForm = UserFormCva_constructor
    /\ userFormSubscribers = <<>>
    /\ userFormLast = UserFormCva_Report("init", TRUE, <<>>)

(***************************************************************************)
(* Operations of MultiTabFormCvaComponent                                  *)
(***************************************************************************)
\* variant: the tab is switched without asking canSwitchToTab
switchedTab_unchecked(tabIndex) == tabIndex

\* activeTab after switchTab(tabIndex)
switchedTab(tabIndex) ==
    IF canSwitchToTab(tabIndex) THEN tabIndex ELSE activeTab

\* an alert: the message shown and the tab whose title the message holds
\* (None for a message without a title)
Alert(message, tab) == [message |-> message, tab |-> tab]

\* variant: the alert names the first invalid tab instead of the target
switchAlerts_firstInvalid(tabIndex) ==
    IF canSwitchToTab(tabIndex) \/ titleThrows(tabIndex)
    THEN <<>>
    ELSE <<Alert("previousTabsIncomplete", Some(findFirstInvalidTab))>>

\* the alert of switchTab's blocked branch; its message is built from
\* tabs[tabIndex].title, so no alert is shown when that read throws
switchAlerts(tabIndex) ==
    IF canSwitchToTab(tabIndex) \/ titleThrows(tabIndex)
    THEN <<>>
    ELSE <<Alert("previousTabsIncomplete", Some(tabIndex))>>

\* switchTab(tabIndex), called from the template or from nextTab/previousTab
switchTabAs(op, tabIndex) ==
    /\ activeTab' = switchedTab(tabIndex)
    /\ last' = Called(Report(op, tabIndex, canSwitchToTab(tabIndex),
                             switchAlerts(tabIndex), titleThrows(tabIndex),
                             None),
                      <<>>, IF canSwitchToTab(tabIndex) THEN 1 ELSE 0)
    /\ UNCHANGED <<complexForm, sectionForm>>
    /\ UNCHANGED userVars

switchTab(tabIndex) == switchTabAs("switchTab", tabIndex)

\* variant: the guard stops one tab early (activeTab < tabs.length - 2)
nextTab_stopsEarly ==
    IF activeTab < Len(tabs) - 2
    THEN switchTabAs("nextTab", activeTab + 1)
    ELSE /\ last' = Report("nextTab", activeTab, FALSE, <<>>, FALSE, None)
         /\ UNCHANGED <<activeTab, complexForm, sectionForm>>
         /\ UNCHANGED userVars

nextTab ==
    IF activeTab < Len(tabs) - 1
    THEN switchTabAs("nextTab", activeTab + 1)
    ELSE /\ last' = Report("nextTab", activeTab, FALSE, <<>>, FALSE, None)
         /\ UNCHANGED <<activeTab, complexForm, sectionForm>>
         /\ UNCHANGED userVars

previousTab ==
    IF activeTab > 0
    THEN switchTabAs("previousTab", activeTab - 1)
    ELSE /\ last' = Report("previousTab", activeTab, FALSE, <<>>, FALSE,
                           None)
         /\ UNCHANGED <<activeTab, complexForm, sectionForm>>
         /\ UNCHANGED userVars

\* variant: markAsTouched() on the group, which leaves its controls alone
markAllFieldsAsTouched_groupOnly(form) == form

\* complexForm.markAllAsTouched()
markAllFieldsAsTouched(form) ==
    [form EXCEPT !.controls =
        [n \in DOMAIN form.controls |->
            [form.controls[n] EXCEPT !.touched = TRUE]]]

onSubmit ==
    IF complexForm.status = "VALID"
    THEN /\ last' = Called(Report("onSubmit", activeTab, TRUE,
                                  <<Alert("submitted", None)>>,
                                  FALSE, Some(GroupValue(complexForm))),
                           <<>>, 1)
         /\ UNCHANGED <<activeTab, complexForm, sectionForm>>
         /\ UNCHANGED userVars
    ELSE LET firstInvalidTab == findFirstInvalidTab
         IN  /\ complexForm' = markAllFieldsAsTouched(complexForm)
             /\ IF firstInvalidTab # -1
                THEN /\ activeTab' = switchedTab(firstInvalidTab)
                     /\ last' =
                          Called(Report("onSubmit", firstInvalidTab, FALSE,
                                        switchAlerts(firstInvalidTab)
                                          \o <<Alert("completeTab",
                                                     Some(firstInvalidTab))>>,
                                        titleThrows(firstInvalidTab), None),
                                 <<>>,
                                 IF canSwitchToTab(firstInvalidTab)
                                 THEN 2 ELSE 1)
                ELSE /\ activeTab' = activeTab
                     /\ last' =
                          Called(Report("onSubmit", firstInvalidTab, FALSE,
                                        <<Alert("fillAllFields", None)>>,
                                        FALSE, None),
                                 <<>>, 1)
             /\ UNCHANGED sectionForm
             /\ UNCHANGED userVars

\* variant: the control is marked touched along with the new value
controlAfterSetValue_touched(name, value) ==
    [revalidate([complexForm.controls[name] EXCEPT !.value = value],
                name, sectionWriteValue(sectionForm[name], value))
       EXCEPT !.touched = TRUE]

\* variant: the control is reset to the value (control.reset(value)), which
\* marks it untouched
controlAfterSetValue_reset(name, value) ==
    [revalidate([complexForm.controls[name] EXCEPT !.value = value],
                name, sectionWriteValue(sectionForm[name], value))
       EXCEPT !.touched = FALSE]

\* control.setValue(value) on the control of a section: the section
\* component receives the value through its writeValue, then the control
\* is validated
controlAfterSetValue(name, value) ==
    revalidate([complexForm.controls[name] EXCEPT !.value = value],
               name, sectionWriteValue(sectionForm[name], value))

\* variant: a null value resets the form to the state it was created in
writeValue_resetsOnNull(value) ==
    /\ IF value # None
       THEN /\ sectionForm' =
                  [n \in ControlNames |->
                     sectionWriteValue(sectionForm[n], value[1][n])]
            /\ complexForm' =
                  withControls(complexForm,
                     [n \in ControlNames |->
                        controlAfterSetValue(n, value[1][n])])
       ELSE /\ sectionForm' = [n \in ControlNames |-> createInnerForm(n)]
            /\ complexForm' = createComplexForm
    /\ last' = Report("writeValue", activeTab, value # None, <<>>, FALSE,
                      None)
    /\ UNCHANGED activeTab
    /\ UNCHANGED userVars

\* writeValue(value): complexForm.patchValue(value, { emitEvent: false })
\* for a truthy value, nothing for null; ok records which branch was taken
writeValue(value) ==
    /\ IF value # None
       THEN /\ sectionForm' =
                  [n \in ControlNames |->
                     sectionWriteValue(sectionForm[n], value[1][n])]
            /\ complexForm' =
                  withControls(complexForm,
                     [n \in ControlNames |->
                        controlAfterSetValue(n, value[1][n])])
       ELSE UNCHANGED <<complexForm, sectionForm>>
    /\ last' = Report("writeValue", activeTab, value # None, <<>>, FALSE,
                      None)
    /\ UNCHANGED activeTab
    /\ UNCHANGED userVars

\* setDisabledState(isDisabled): complexForm.disable() / enable().  Each
\* control passes the change on to its section component, whose inner form
\* is disabled / enabled in turn and emits its value, which the section
\* component reports to its control.
setDisabledState(isDisabled) ==
    LET inner == [n \in ControlNames |->
                    [sectionForm[n] EXCEPT !.disabled = isDisabled]]
        controls ==
          [n \in ControlNames |->
             revalidate([complexForm.controls[n] EXCEPT
                           !.value = Some(inner[n].value),
                           !.status = IF isDisabled THEN "DISABLED"
                                      ELSE "VALID"],
                        n, inner[n])]
    IN  /\ sectionForm' = inner
        /\ complexForm' = withControls(complexForm, controls)
        /\ last' = Called(Report("setDisabledState", activeTab, TRUE, <<>>,
                                 FALSE, None),
                          stateChangeEmissions(complexForm, controls), 0)
        /\ UNCHANGED activeTab
        /\ UNCHANGED userVars

\* onNestedCvaChange(sectionName, value):
\* complexForm.get(sectionName)?.setValue(value); onTouched()
onNestedCvaChange(sectionName, value) ==
    /\ IF get(complexForm, Some(sectionName)) # None
       THEN /\ sectionForm' =
                  [sectionForm EXCEPT ![sectionName] =
                     sectionWriteValue(sectionForm[sectionName], value)]
            /\ complexForm' =
                  withControls(complexForm,
                     [complexForm.controls EXCEPT ![sectionName] =
                        controlAfterSetValue(sectionName, value)])
       ELSE UNCHANGED <<complexForm, sectionForm>>
    /\ last' = Called(Report("onNestedCvaChange", activeTab, TRUE, <<>>,
                             FALSE, None),
                      IF get(complexForm, Some(sectionName)) # None
                      THEN onValueChanges(complexForm')
                      ELSE <<>>,
                      1)
    /\ UNCHANGED activeTab
    /\ UNCHANGED userVars

\* onNestedCvaTouched(sectionName):
\* complexForm.get(sectionName)?.markAsTouched(); onTouched()
onNestedCvaTouched(sectionName) ==
    /\ IF get(complexForm, Some(sectionName)) # None
       THEN complexForm' =
              [complexForm EXCEPT !.controls[sectionName].touched = TRUE]
       ELSE UNCHANGED complexForm
    /\ last' = Called(Report("onNestedCvaTouched", activeTab, TRUE, <<>>,
                             FALSE, None),
                      <<>>, 1)
    /\ UNCHANGED <<activeTab, sectionForm>>
    /\ UNCHANGED userVars

(***************************************************************************)
(* The template helpers, called from the template on every rendering and   *)
(* by the parent control (validate).  A call reads the form and logs; its  *)
(* result is recorded in the report: a boolean as ok, an index as tab, an  *)
(* errors object as formData.                                              *)
(***************************************************************************)
call_canSwitchToTab(tabIndex) ==
    /\ last' = Report("canSwitchToTab", tabIndex, canSwitchToTab(tabIndex),
                      <<>>, FALSE, None)
    /\ UNCHANGED <<activeTab, complexForm, sectionForm>>
    /\ UNCHANGED userVars

call_isTabValid(tabIndex) ==
    /\ last' = Report("isTabValid", tabIndex, isTabValid(tabIndex), <<>>,
                      FALSE, None)
    /\ UNCHANGED <<activeTab, complexForm, sectionForm>>
    /\ UNCHANGED userVars

call_canSubmitForm ==
    /\ last' = Report("canSubmitForm", activeTab, canSubmitForm, <<>>, FALSE,
                      None)
    /\ UNCHANGED <<activeTab, complexForm, sectionForm>>
    /\ UNCHANGED userVars

call_validate ==
    /\ last' = Report("validate", activeTab, validate = None, <<>>, FALSE,
                      validate)
    /\ UNCHANGED <<activeTab, complexForm, sectionForm>>
    /\ UNCHANGED userVars

\* variant: the search also makes the tab it finds the active tab
call_findFirstInvalidTab_switching ==
    /\ last' = Report("findFirstInvalidTab", findFirstInvalidTab,
                      findFirstInvalidTab # -1, <<>>, FALSE, None)
    /\ activeTab' = IF findFirstInvalidTab # -1 THEN findFirstInvalidTab
                    ELSE activeTab
    /\ UNCHANGED <<complexForm, sectionForm>>
    /\ UNCHANGED userVars

call_findFirstInvalidTab ==
    /\ last' = Report("findFirstInvalidTab", findFirstInvalidTab,
                      findFirstInvalidTab # -1, <<>>, FALSE, None)
    /\ UNCHANGED <<activeTab, complexForm, sectionForm>>
    /\ UNCHANGED userVars

(***************************************************************************)
(* Operation of a section component: the user edits the fields of the      *)
(* section; the inner form's valueChanges subscription (ngOnInit) calls    *)
(* onChange(value), which sets the bound control's value and validates it. *)
(***************************************************************************)
sectionValueChanges(name, value) ==
    /\ ~sectionForm[name].disabled
    /\ value # sectionForm[name].value
    /\ sectionForm' = [sectionForm EXCEPT ![name].value = value]
    /\ complexForm' =
          withControls(complexForm,
             [complexForm.controls EXCEPT ![name] =
                revalidate([@ EXCEPT !.value = Some(value)], name,
                           [sectionForm[name] EXCEPT !.value = value])])
    /\ last' = Called(Report("sectionValueChanges", activeTab, TRUE, <<>>,
                             FALSE, None),
                      onValueChanges(complexForm'), 0)
    /\ UNCHANGED activeTab
    /\ UNCHANGED userVars

\* the user types a text into one field of a section: the inner form
\* emits its new value
fieldInput(name, field, text) ==
    sectionValueChanges(name, [sectionForm[name].value EXCEPT
                                  ![field] = text])

Next ==
    \/ \E tabIndex \in TabTargets : switchTab(tabIndex)
    \/ nextTab
    \/ previousTab
    \/ onSubmit
    \/ \E value \in ComplexValues : writeValue(value)
    \/ \E isDisabled \in BOOLEAN : setDisabledState(isDisabled)
    \/ \E sectionName \in SectionNames :
          \E value \in (IF sectionName \in ControlNames
                        THEN SectionValues(sectionName) ELSE {None}) :
             onNestedCvaChange(sectionName, value)
    \/ \E sectionName \in SectionNames : onNestedCvaTouched(sectionName)
    \/ \E name \in ControlNames :
          \E value \in Samples(name) : sectionValueChanges(name, value)

Spec == Init /\ [][Next]_vars

\* UserFormCvaComponent on its own: a forms directive registers functions
\* and writes values, the user types and submits
UserFormCvaNext ==
    \/ UserFormCva_onSubmit
    \/ \E value \in UserFormValues : UserFormCva_writeValue(value)
    \/ \E fn \in Callbacks : UserFormCva_registerOnChange(fn)
    \/ \E fn \in Callbacks : UserFormCva_registerOnTouched(fn)
    \/ \E field \in UserFormFields :
          \E text \in UserFormTexts : UserFormCva_input(field, text)

UserFormCvaSpec == Init /\ [][UserFormCvaNext]_vars

\* the section components field by field: the user types into single
\* fields, the sections are disabled and enabled through their controls
SectionNext ==
    \/ \E name \in ControlNames :
          \E field \in FieldSet(name) :
             \E text \in FieldTexts(name, field) :
                fieldInput(name, field, text)
    \/ \E isDisabled \in BOOLEAN : setDisabledState(isDisabled)

SectionSpec == Init /\ [][SectionNext]_vars

\* the wizard walked through: the parent writes values until the form is
\* valid, the user presses Next and Submit.  The user keeps pressing both
\* buttons, which is the weak fairness of nextTab and onSubmit.
writeUntilValid(value) == ~canSubmitForm /\ writeValue(value)

WizardNext ==
    \/ \E value \in ComplexValues : writeUntilValid(value)
    \/ nextTab
    \/ onSubmit

WizardSpec ==
    Init /\ [][WizardNext]_vars /\ WF_vars(nextTab) /\ WF_vars(onSubmit)

\* the template helpers called between the operations that change the
\* sections and the active tab
HelperNext ==
    \/ \E tabIndex \in TabTargets : call_canSwitchToTab(tabIndex)
    \/ \E tabIndex \in TabTargets : call_isTabValid(tabIndex)
    \/ call_canSubmitForm
    \/ call_validate
    \/ call_findFirstInvalidTab
    \/ \E tabIndex \in TabTargets : switchTab(tabIndex)
    \/ \E isDisabled \in BOOLEAN : setDisabledState(isDisabled)
    \/ \E sectionName \in SectionNames : onNestedCvaTouched(sectionName)
    \/ \E name \in ControlNames :
          \E value \in Samples(name) : sectionValueChanges(name, value)

HelperSpec == Init /\ [][HelperNext]_vars

(***************************************************************************)
(* Properties                                                              *)
(***************************************************************************)
TabIndices == 0..(Len(tabs) - 1)

\* the validity flag of the section at an index of TabIndices
SectionValid(i) == complexForm.controls[tabNames[i + 1]].status = "VALID"

InvalidSections == {i \in TabIndices : ~SectionValid(i)}

Minimum(S) == CHOOSE m \in S : \A k \in S : m <= k

\* C1: activeTab is always an index of a tab, 0 <= activeTab < tabs.length,
\* whatever sequence of operations ran, switchTab with negative or too
\* large indices included.
ActiveTabInRange == activeTab \in TabIndices

\* C2: for every tab index above activeTab, canSwitchToTab holds exactly
\* when every section before the target is valid.
ForwardGating ==
    \A t \in TabIndices :
        t > activeTab =>
            (canSwitchToTab(t) <=> \A i \in 0..(t - 1) : SectionValid(i))

\* a state where one forward target is open and a later one is locked
ForwardGatingWitness ==
    /\ activeTab = 0
    /\ canSwitchToTab(1)
    /\ ~canSwitchToTab(2)

\* C3: for every target index at or below activeTab, canSwitchToTab holds,
\* whatever the validity of the sections.
BackwardNeverGated ==
    \A t \in TabTargets : t <= activeTab => canSwitchToTab(t)

\* a state on the last tab with the first section invalid
BackwardNeverGatedWitness ==
    /\ activeTab = Len(tabs) - 1
    /\ ~SectionValid(0)
    /\ canSwitchToTab(0)
    /\ canSwitchToTab(activeTab)

\* C4: every step that increases activeTab to a value i is taken in a
\* state where all sections at indices below i are valid.
ForwardMoveGated ==
    [][activeTab' > activeTab =>
          \A i \in TabIndices : i < activeTab' => SectionValid(i)]_vars

\* nextTab has moved from the first tab forward, or a failed submit has
\* moved forward to the blocking tab
ForwardMoveGatedWitness ==
    /\ last.op \in {"nextTab", "onSubmit"}
    /\ last.from < activeTab
    /\ activeTab = Len(tabs) - 1

\* C5: switchTab(tabIndex) sets activeTab to tabIndex when
\* canSwitchToTab(tabIndex) holds; when it does not, activeTab and every
\* section's value, validity and touched flag stay as they were.
SwitchTabEffect ==
    [][last'.op = "switchTab" =>
          IF canSwitchToTab(last'.tab)
          THEN activeTab' = last'.tab /\ last'.ok
          ELSE /\ UNCHANGED <<activeTab, complexForm, sectionForm>>
               /\ ~last'.ok]_vars

\* a switchTab that was refused while a section had been touched
SwitchTabEffectWitness ==
    /\ last.op = "switchTab"
    /\ ~last.ok
    /\ last.tab \in TabIndices
    /\ isTabTouched(0)

\* C6: onSubmit takes its success branch exactly when the form is valid
\* when it is called; the value of the success branch maps every section
\* name to the section's value; the tab named by the failure branch is the
\* lowest index of an invalid section.
SubmitOutcome ==
    [][last'.op = "onSubmit" =>
          /\ last'.ok <=> canSubmitForm
          /\ last'.ok =>
                last'.formData =
                   Some([n \in ControlNames |-> complexForm.controls[n].value])
          /\ ~last'.ok =>
                /\ InvalidSections # {}
                /\ last'.tab = Minimum(InvalidSections)]_vars

\* a submit that succeeded with a value for every section
SubmitOutcomeWitness ==
    /\ last.op = "onSubmit"
    /\ last.ok
    /\ last.formData # None
    /\ \A n \in ControlNames : last.formData[1][n] # None

\* C7 as stated: onSubmit never changes activeTab, whether it succeeds or
\* fails.
SubmitKeepsActiveTab ==
    [][last'.op = "onSubmit" => activeTab' = activeTab]_vars

\* C7 as amended: a successful onSubmit leaves activeTab unchanged, a failed
\* onSubmit sets activeTab to the lowest index of an invalid section.
SubmitMovesToFirstInvalid ==
    [][last'.op = "onSubmit" =>
          IF canSubmitForm
          THEN activeTab' = activeTab
          ELSE /\ InvalidSections # {}
               /\ activeTab' = Minimum(InvalidSections)]_vars

\* a failed submit has moved activeTab to another tab, the blocking one
SubmitMovesToFirstInvalidWitness ==
    /\ last.op = "onSubmit"
    /\ ~last.ok
    /\ last.from \in TabIndices
    /\ last.from # activeTab
    /\ activeTab = last.tab

\* C8: the form is valid (canSubmitForm) exactly when isTabValid holds for
\* every tab; a form without sections is valid.
AggregateValidity ==
    /\ canSubmitForm <=> \A i \in TabIndices : isTabValid(i)
    /\ GroupStatus(<<>>) = "VALID"

\* all sections valid after they were filled in, on a later tab
AggregateValidityWitness ==
    /\ canSubmitForm
    /\ \A i \in TabIndices : isTabValid(i)
    /\ activeTab > 0

\* C9: findFirstInvalidTab is the least index of an invalid section, and
\* is -1 exactly when every section is valid.
FirstInvalidIsMinimum ==
    /\ InvalidSections # {} =>
          findFirstInvalidTab = Minimum(InvalidSections)
    /\ findFirstInvalidTab = -1 <=> InvalidSections = {}

\* only the last section is invalid
FirstInvalidIsMinimumWitness ==
    /\ InvalidSections = {Len(tabs) - 1}
    /\ findFirstInvalidTab = Len(tabs) - 1

\* the entries of the errors that validate() reports (none when it is null)
AggregateErrors == IF validate = None THEN <<>> ELSE validate[1].errors

\* an errors map holds an entry for exactly the invalid sections, no entry
\* is null or empty, and validate() is null exactly when all are valid
ErrorsMatchInvalidSections ==
    /\ \A i \in TabIndices :
          tabNames[i + 1] \in DOMAIN AggregateErrors <=> ~SectionValid(i)
    /\ \A n \in DOMAIN AggregateErrors :
          /\ AggregateErrors[n] # None
          /\ DOMAIN AggregateErrors[n][1].errors # {}
          /\ \A f \in DOMAIN AggregateErrors[n][1].errors :
                AggregateErrors[n][1].errors[f] # {}
    /\ validate = None <=> InvalidSections = {}

\* C10 as stated: validate() has an entry for a section exactly when the
\* section is invalid, has no null or empty entry, and is null exactly
\* when all sections are valid.
AggregateErrorsSparse == ErrorsMatchInvalidSections

\* C10 as amended: while the form is not disabled, validate() has an entry
\* for a section exactly when the section is invalid, has no null or empty
\* entry, and is null exactly when all sections are valid; while the form
\* is disabled, validate() is null and no section is valid.
AggregateErrorsSparseWhenEnabled ==
    IF complexForm.status = "DISABLED"
    THEN validate = None /\ InvalidSections = TabIndices
    ELSE ErrorsMatchInvalidSections

\* an enabled form with one valid and two invalid sections
AggregateErrorsSparseWhenEnabledWitness ==
    /\ complexForm.status = "INVALID"
    /\ DOMAIN AggregateErrors = {"personalInfo", "preferences"}
    /\ SectionValid(1)

\* C11: nextTab at the last tab and previousTab at the first tab are
\* no-ops that leave activeTab and the sections as they are; anywhere else
\* nextTab does what switchTab(activeTab + 1) does and previousTab what
\* switchTab(activeTab - 1) does, so previousTab away from index 0 lowers
\* activeTab by exactly one.
NextPreviousAreSwitchTab ==
    [][/\ last'.op = "nextTab" =>
            IF activeTab = Len(tabs) - 1
            THEN UNCHANGED <<activeTab, complexForm, sectionForm>>
            ELSE /\ activeTab' = switchedTab(activeTab + 1)
                 /\ UNCHANGED <<complexForm, sectionForm>>
       /\ last'.op = "previousTab" =>
            IF activeTab = 0
            THEN UNCHANGED <<activeTab, complexForm, sectionForm>>
            ELSE /\ activeTab' = activeTab - 1
                 /\ UNCHANGED <<complexForm, sectionForm>>]_vars

\* C12: canSwitchToTab is false for every index that is not the index of a
\* tab, negative indices and indices >= tabs.length alike, in every state.
OutOfRangeTargetRefused ==
    \A tabIndex \in TabTargets \ TabIndices : ~canSwitchToTab(tabIndex)

\* C13: isTabValid is false for every index that is not the index of a tab
\* and is the validity of the tab's control for the index of a tab.
IsTabValidTotal ==
    \A tabIndex \in TabTargets :
       isTabValid(tabIndex) = (tabIndex \in TabIndices /\ SectionValid(tabIndex))

\* all three tabs are valid and the tabs asked about include indices on
\* both sides of the range
IsTabValidTotalWitness ==
    /\ \A i \in TabIndices : isTabValid(i)
    /\ \E low, high \in TabTargets :
          /\ low < 0 /\ ~isTabValid(low)
          /\ high >= Len(tabs) /\ ~isTabValid(high)

\* C14: no operation ever ends in an exception; in particular switchTab
\* with an index that is not the index of a tab completes normally in both
\* of its branches and leaves activeTab and the sections unchanged.
NoOperationThrows ==
    [][/\ ~last'.thrown
       /\ (last'.op = "switchTab" /\ last'.tab \notin TabIndices)
             => UNCHANGED <<activeTab, complexForm, sectionForm>>]_vars

\* the tabs below tabIndex that are not valid: the prerequisites that block
\* a switch to tabIndex
InvalidBelow(tabIndex) == {i \in InvalidSections : i < tabIndex}

\* the last operation was a switch that took the blocked branch of switchTab
SwitchBlocked ==
    /\ last.op \in {"switchTab", "nextTab", "previousTab"}
    /\ ~last.ok
    /\ last.tab > last.from

\* C15: when switchTab is blocked, the alert names the first invalid tab
\* below the target, the lowest-index prerequisite that is not valid, and
\* not the tab that was asked for.
BlockedNamesFirstInvalid ==
    \A k \in 1..Len(last.alerts) :
       last.alerts[k].message = "previousTabsIncomplete"
          => last.alerts[k].tab = Some(Minimum(InvalidBelow(last.tab)))

\* C15, as the code has it: when switchTab is blocked for the index of a
\* tab, the one alert names the tab that was asked for, tabs[tabIndex], and
\* some tab below it is not valid; for an index that is not the index of a
\* tab the blocked branch throws before any alert is shown.
BlockedNamesTarget ==
    SwitchBlocked =>
       IF last.tab \in TabIndices
       THEN /\ last.alerts =
                 <<Alert("previousTabsIncomplete", Some(last.tab))>>
            /\ InvalidBelow(last.tab) # {}
            /\ ~last.thrown
       ELSE last.alerts = <<>> /\ last.thrown

\* a switch to the last tab is blocked while the last tab itself is valid:
\* the alert names the last tab, the invalid prerequisite is the first tab
BlockedNamesTargetWitness ==
    /\ SwitchBlocked
    /\ last.tab = Len(tabs) - 1
    /\ SectionValid(last.tab)
    /\ Minimum(InvalidBelow(last.tab)) = 0
    /\ last.alerts = <<Alert("previousTabsIncomplete", Some(last.tab))>>

\* C16: a failed onSubmit leaves every tab's control touched; a successful
\* onSubmit leaves every touched flag as it was.
SubmitTouched ==
    [][last'.op = "onSubmit" =>
          IF last'.ok
          THEN \A n \in ControlNames :
                  complexForm'.controls[n].touched
                     = complexForm.controls[n].touched
          ELSE \A n \in ControlNames : complexForm'.controls[n].touched]_vars

\* a failed onSubmit has marked all three tabs touched
SubmitTouchedWitness ==
    /\ last.op = "onSubmit"
    /\ ~last.ok
    /\ \A i \in TabIndices : isTabTouched(i)

\* C17: a value pushed for a section through onNestedCvaChange changes
\* only that section's value: no validity flag changes and activeTab does
\* not change (validity would be set by a separate call that changes the
\* flag only).
SectionUpdateChangesValueOnly ==
    [][last'.op = "onNestedCvaChange" =>
          /\ activeTab' = activeTab
          /\ \A n \in ControlNames :
                complexForm'.controls[n].status
                   = complexForm.controls[n].status]_vars

\* C17, as the code has it: a value pushed for a section (by
\* onNestedCvaChange or by the section component itself) changes that
\* section's value and, through the validation the control runs in the
\* same call, its validity; activeTab, the touched flags and the other
\* sections stay as they were.  With activeTab = 1, the first tab turning
\* invalid leaves activeTab = 1, keeps canSwitchToTab(0) true and makes
\* canSwitchToTab(2) false.
SectionUpdateIsLocal ==
    [][last'.op \in {"onNestedCvaChange", "sectionValueChanges"} =>
          /\ activeTab' = activeTab
          /\ \E name \in SectionNames :
                \A n \in ControlNames \ {name} :
                   /\ complexForm'.controls[n] = complexForm.controls[n]
                   /\ sectionForm'[n] = sectionForm[n]
          /\ \A n \in ControlNames :
                complexForm'.controls[n].touched
                   = complexForm.controls[n].touched
          /\ (activeTab = 1 /\ SectionValid(0) /\ ~SectionValid(0)')
                => /\ activeTab' = 1
                   /\ canSwitchToTab(0)'
                   /\ ~canSwitchToTab(2)']_vars

\* on the second tab, after a section update, the first tab is invalid:
\* going back is allowed, going on is not
SectionUpdateIsLocalWitness ==
    /\ last.op = "onNestedCvaChange"
    /\ activeTab = 1
    /\ ~SectionValid(0)
    /\ SectionValid(1)
    /\ canSwitchToTab(0)
    /\ ~canSwitchToTab(2)

\* the step changes the value of the control of some section
SectionValueChanged ==
    \E n \in ControlNames :
       complexForm'.controls[n].value # complexForm.controls[n].value

\* C18: every change of a section's value is followed by exactly one call
\* of the registered onChange, with the combined value after the change.
EveryValueChangeNotifiedOnce ==
    [][SectionValueChanged
          => last'.onChange = <<GroupValue(complexForm)'>>]_vars

\* C18, as the code has it: a value reported by a section component or
\* pushed through onNestedCvaChange is followed by exactly one call of
\* onChange with the combined value after the change; writeValue changes
\* the values without any call; setDisabledState calls onChange once per
\* section and once for the group, the last time with the combined value
\* after the change; no other operation changes a section's value.
SectionChangeNotifiedOnce ==
    [][/\ last'.op = "sectionValueChanges"
            => last'.onChange = <<GroupValue(complexForm)'>>
       /\ last'.op = "onNestedCvaChange"
            => IF SectionValueChanged
               THEN last'.onChange = <<GroupValue(complexForm)'>>
               ELSE last'.onChange \in {<<>>, <<GroupValue(complexForm)'>>}
       /\ last'.op = "writeValue" => last'.onChange = <<>>
       /\ last'.op = "setDisabledState"
            => /\ Len(last'.onChange) = Len(tabs) + 1
               /\ last'.onChange[Len(tabs) + 1] = GroupValue(complexForm)'
       /\ last'.op \notin {"sectionValueChanges", "onNestedCvaChange",
                           "writeValue", "setDisabledState"}
            => ~SectionValueChanged /\ last'.onChange = <<>>]_vars

\* the section component of the first tab has reported a complete value:
\* onChange was called once, with that value in the combined value
SectionChangeNotifiedOnceWitness ==
    /\ last.op = "sectionValueChanges"
    /\ complexForm.controls["personalInfo"].value = Some(PersonalJane)
    /\ Len(last.onChange) = 1
    /\ last.onChange[1]["personalInfo"] = Some(PersonalJane)

\* C19: writeValue of a value accessor never calls a registered change or
\* touched callback: neither the multi-tab form's nor
\* UserFormCvaComponent's.
WriteValueCallsNoCallback ==
    /\ last.op = "writeValue" => last.onChange = <<>> /\ last.onTouched = 0
    /\ userFormLast.op = "writeValue" => userFormLast.calls = <<>>

\* validate() of the section component bound to a control, on the
\* section's inner form as it is now
SectionHasErrors(name) == SectionValidate(name, sectionForm[name]) # None

\* C20: in every reachable state, after setDisabledState(true) as well,
\* validate() of the multi-tab form is non-null exactly when at least one
\* section component currently reports validation errors.
ValidationBubbles ==
    (validate # None) <=> (\E n \in ControlNames : SectionHasErrors(n))

\* the form was disabled while the first section's fields were empty:
\* no section reports errors and validate() is null
ValidationBubblesWitness ==
    /\ last.op = "setDisabledState"
    /\ complexForm.status = "DISABLED"
    /\ sectionForm["personalInfo"].value = PersonalEmpty
    /\ \A n \in ControlNames : ~SectionHasErrors(n)
    /\ validate = None

\* the fields of a section whose control has the given status
FieldsOfStatus(name, status) ==
    {f \in FieldSet(name) : FieldStatus(name, f, sectionForm[name]) = status}

\* C21: validate() of each section component is null exactly when all of
\* the section's fields are valid; otherwise it is an object with the one
\* key <section name> whose map has an entry for a field exactly when that
\* field is invalid.
SectionValidateExact ==
    \A name \in ControlNames :
       LET result == SectionValidate(name, sectionForm[name])
       IN  /\ (result = None)
                <=> (FieldsOfStatus(name, "VALID") = FieldSet(name))
           /\ result # None =>
                /\ result[1].key = name
                /\ DOMAIN result[1].errors = FieldsOfStatus(name, "INVALID")

\* C21, as the code has it: while a section is enabled, validate() is null
\* exactly when all of its fields are valid, and otherwise is the object
\* keyed by the section name with an entry exactly for the invalid fields;
\* while the section is disabled validate() is null although no field is
\* valid.
SectionValidateExactWhenEnabled ==
    \A name \in ControlNames :
       LET result == SectionValidate(name, sectionForm[name])
       IN  IF sectionForm[name].disabled
           THEN result = None /\ FieldsOfStatus(name, "VALID") = {}
           ELSE /\ (result = None)
                     <=> (FieldsOfStatus(name, "VALID") = FieldSet(name))
                /\ result # None =>
                     /\ result[1].key = name
                     /\ DOMAIN result[1].errors
                          = FieldsOfStatus(name, "INVALID")

\* a section with a valid field, a field that fails a validator on its
\* text and fields that are empty: the entries are those of the invalid
\* fields only
SectionValidateExactWhenEnabledWitness ==
    LET form == sectionForm["personalInfo"]
        result == SectionValidate("personalInfo", form)
    IN  /\ ~form.disabled
        /\ form.value["firstName"] = "Jane"
        /\ form.value["email"] = "jane"
        /\ result # None
        /\ DOMAIN result[1].errors = FieldSet("personalInfo") \ {"firstName"}
        /\ result[1].errors["email"] = {"email"}

\* the names under which the calls of the template helpers are reported
HelperOps ==
    {"canSwitchToTab", "isTabValid", "canSubmitForm", "validate",
     "findFirstInvalidTab"}

\* C22: canSwitchToTab, isTabValid, canSubmitForm, validate and
\* findFirstInvalidTab are pure: a call, with any argument, leaves
\* activeTab and every section's value, validity and touched flag
\* unchanged, calls neither onChange nor onTouched and does not throw.
HelpersArePure ==
    [][last'.op \in HelperOps =>
          /\ UNCHANGED <<activeTab, complexForm, sectionForm>>
          /\ last'.onChange = <<>>
          /\ last'.onTouched = 0
          /\ ~last'.thrown]_vars

\* findFirstInvalidTab was called on the first tab while the first invalid
\* tab is the second one, with a tab touched: the active tab and the
\* touched flag are as before
HelpersArePureWitness ==
    /\ last.op = "findFirstInvalidTab"
    /\ last.tab = 1
    /\ activeTab = 0
    /\ isTabTouched(0)
    /\ ~isTabTouched(1)

\* C23: whenever canProceedToNext() is true and activeTab is not the last
\* tab, nextTab() moves activeTab to activeTab + 1: the enabled Next button
\* never leads to a blocked switch.
EnabledNextNeverBlocked ==
    [][(last'.op = "nextTab" /\ canProceedToNext
          /\ activeTab # Len(tabs) - 1)
         => activeTab' = activeTab + 1]_vars

\* C24: whenever the form is not valid, onSubmit ends with activeTab at the
\* lowest index of a tab that is not valid: findFirstInvalidTab is not -1
\* there, the fallback alert is not shown, and the switchTab(firstInvalidTab)
\* it performs takes the allowed branch.
FailedSubmitAlwaysLands ==
    [][(last'.op = "onSubmit" /\ ~canSubmitForm) =>
          /\ InvalidSections # {}
          /\ findFirstInvalidTab # -1
          /\ last'.tab = Minimum(InvalidSections)
          /\ activeTab' = Minimum(InvalidSections)
          /\ last'.onTouched = 2
          /\ \A k \in 1..Len(last'.alerts) :
                last'.alerts[k].message = "completeTab"]_vars

\* a failed onSubmit called on the first tab has moved forward to the last
\* tab, the only one that is not valid
FailedSubmitAlwaysLandsWitness ==
    /\ last.op = "onSubmit"
    /\ ~last.ok
    /\ last.from = 0
    /\ activeTab = Len(tabs) - 1
    /\ InvalidSections = {Len(tabs) - 1}
    /\ last.alerts = <<Alert("completeTab", Some(Len(tabs) - 1))>>

AllValidReachesSubmit ==
    /\ [][(last'.op = "nextTab" /\ canSubmitForm
             /\ activeTab < Len(tabs) - 1)
            => activeTab' = activeTab + 1]_vars
    /\ canSubmitForm
         ~> (activeTab = Len(tabs) - 1 /\ last.op = "onSubmit" /\ last.ok)

\* the form was submitted from the last tab with all sections valid
AllValidReachesSubmitWitness ==
    /\ canSubmitForm
    /\ activeTab = Len(tabs) - 1
    /\ last.op = "onSubmit"
    /\ last.ok
    /\ last.from = Len(tabs) - 1

\* some tab before the active one is not valid
PredecessorInvalid == \E i \in InvalidSections : i < activeTab

\* C27: writeValue never changes activeTab and changes nothing at all for
\* a null value; so after a writeValue that leaves a tab before the active
\* one invalid, activeTab stays on its tab, the switch forward from there
\* is blocked and the switch backward is allowed.
WriteValueKeepsActiveTab ==
    [][last'.op = "writeValue" =>
          /\ activeTab' = activeTab
          /\ ~last'.ok => UNCHANGED <<complexForm, sectionForm>>
          /\ PredecessorInvalid' =>
                /\ ~canSwitchToTab(activeTab + 1)'
                /\ canSwitchToTab(activeTab - 1)']_vars

\* on the second tab after a writeValue that made the first tab invalid
\* and left the second valid
WriteValueKeepsActiveTabWitness ==
    /\ last.op = "writeValue"
    /\ last.ok
    /\ activeTab = 1
    /\ ~SectionValid(0)
    /\ SectionValid(1)
    /\ ~canSwitchToTab(2)
    /\ canSwitchToTab(0)

\* the form is disabled: setDisabledState(true) was called and
\* setDisabledState(false) has not been called since
FormDisabled == complexForm.status = "DISABLED"

\* C28: while the form is disabled, isTabValid is false for every tab and
\* canSubmitForm is false, so every switch to a tab after the active one
\* is blocked and onSubmit does not take its success branch, while
\* validate() is null.
DisabledFormBlocksForward ==
    FormDisabled =>
       /\ \A i \in TabIndices : ~isTabValid(i)
       /\ ~canSubmitForm
       /\ validate = None
       /\ \A tabIndex \in TabIndices :
             tabIndex > activeTab => ~canSwitchToTab(tabIndex)
       /\ last.op = "onSubmit" => ~last.ok

\* the subscriptions made through registerOnChange, and the calls an
\* operation made through them
ChangeSubscribers ==
    SelectSeq(userFormSubscribers, LAMBDA sub : sub.by = "registerOnChange")

ChangeCalls ==
    SelectSeq(userFormLast.calls, LAMBDA call : call.by = "registerOnChange")

\* C29: after registerOnChange(f) followed by registerOnChange(g), a value
\* change inside the component calls g exactly once and does not call f:
\* the function registered last replaces the ones registered before.
LastRegisteredOnChangeOnly ==
    (userFormLast.op = "input" /\ ChangeSubscribers # <<>>) =>
       ChangeCalls =
          <<[fn |-> ChangeSubscribers[Len(ChangeSubscribers)].fn,
             by |-> "registerOnChange",
             value |-> userForm]>>

\* C30: touched flags only ever go from false to true: whatever operation
\* runs, a tab's control that is touched stays touched.
TouchedIsMonotonic ==
    [][\A n \in ControlNames :
          complexForm.controls[n].touched
             => complexForm'.controls[n].touched]_vars

\* a control touched earlier is still touched after a writeValue that
\* wrote a value, while another control is still untouched
TouchedIsMonotonicWitness ==
    /\ last.op = "writeValue"
    /\ last.ok
    /\ isTabTouched(0)
    /\ ~isTabTouched(1)

====
